---- MODULE Spec2Model ----
(***************************************************************************)
(* A model of the sequence-map crate: Builder (lib.rs), Map (lib.rs), the  *)
(* table and root headers (header.rs), the trie cell (cell.rs) and the     *)
(* string intern pool (string_slice.rs).                                   *)
(*                                                                         *)
(* Representation.  A u64 key is the set of its set bit positions, a       *)
(* subset of 0..63, so that shifts, masks and equality are exact on the    *)
(* full 64-bit width.  A usize is an integer (all offsets of the model are *)
(* far below 2^31).  The byte vector of the builder is kept as the typed   *)
(* overlays the code reads it through (Root, TableHeader, cell::Instance); *)
(* a table's cells are a sparse function from slot to cell where a slot    *)
(* that was never written is the all-zero cell, which is what resize(_, 0) *)
(* and new_slice_zeroed leave there.  ByteAt gives the byte the #[repr(C)] *)
(* and #[repr(packed)] layouts put at each offset on a 64-bit              *)
(* little-endian target, and the read path takes its string bytes from it. *)
(* A string is a sequence of byte values; the values of the model are      *)
(* ASCII and contain no NUL byte.                                          *)
(***************************************************************************)
EXTENDS Integers, Sequences, FiniteSets, TLC

(***************************************************************************)
(* Bounds of the model.                                                    *)
(***************************************************************************)
MaxInserts == 3
MaxWalkInserts == 2
\* the widest fanout whose table blocks are examined byte by byte
MaxByteBits == 3

(***************************************************************************)
(* Program constants.                                                      *)
(***************************************************************************)
KeyWidth == 64
MinBits == 2
MaxBits == 16
RootSize == 24
TableHeaderSize == 16
CellSize == 17

Type_Root == 1
Type_Table == 2

Type_Empty == 0
Type_StringPtr == 1
Type_TablePtr == 2

(***************************************************************************)
(* Inputs: the fanouts, keys and values the model draws from.              *)
(***************************************************************************)
BitsSet == {MinBits, 3, MaxBits}

K0 == {}
K42 == {1, 3, 5}
K84 == {2, 4, 6}
KHigh == {KeyWidth - 1}
KMax == 0 .. (KeyWidth - 1)
Keys == {K0, K42, K84, KHigh, KMax}

Hello == <<72, 101, 108, 108, 111, 33>>
World == <<87, 111, 114, 108, 100, 33>>
Values == {Hello, World}

EmptyMap == [x \in {} |-> 0]

(***************************************************************************)
(* u64 and usize arithmetic.                                               *)
(***************************************************************************)
\* key >> n on u64, for 0 <= n < 64
Shr(key, n) == {i - n : i \in {j \in key : j >= n}}

\* the numeric value of the low n bits of a key (key & ((1 << n) - 1))
RECURSIVE LowBits(_, _)
LowBits(key, n) ==
    IF n = 0 THEN 0
    ELSE LowBits(key, n - 1) + (IF (n - 1) \in key THEN 2 ^ (n - 1) ELSE 0)

\* byte j (0 = least significant) of a usize below 2^31, little-endian
UsizeByte(n, j) == IF j >= 4 THEN 0 ELSE (n \div (256 ^ j)) % 256

\* byte j (0 = least significant) of a u64 key, little-endian
KeyByte(key, j) == LowBits(Shr(key, 8 * j), 8)

(***************************************************************************)
(* cell.rs                                                                 *)
(***************************************************************************)
ZeroCell == [c_type |-> 0, index |-> 0, string_key |-> {}]

get_type(cell) ==
    IF cell.c_type = Type_Empty THEN "Empty"
    ELSE IF cell.c_type = Type_StringPtr THEN "StringPtr"
    ELSE IF cell.c_type = Type_TablePtr THEN "TablePtr"
    ELSE "Unknown"

\* become_type that leaves the stored key of the cell as it was
become_type_keep_key(cell, t, index) ==
    [c_type |-> t, index |-> index, string_key |-> cell.string_key]

become_type(cell, t, index) ==
    [c_type |-> t, index |-> index, string_key |-> {}]

become_string_ptr(cell, index, key) ==
    [become_type(cell, Type_StringPtr, index) EXCEPT !.string_key = key]

become_table_ptr(cell, index) ==
    become_type(cell, Type_TablePtr, index)

string_index_and_key(cell) == <<cell.index, cell.string_key>>

table_index(cell) == cell.index

(***************************************************************************)
(* header.rs                                                               *)
(***************************************************************************)
\* TableSize with a cell that is not packed (24 bytes for its 17)
TableSize_unpacked(bits) == TableHeaderSize + (2 ^ bits) * 24

\* size in bytes of a table block of 2^bits cells
TableSize(bits) == TableHeaderSize + (2 ^ bits) * CellSize

set_bits(header, bits) == [header EXCEPT !.htype = Type_Table, !.bits = bits]

\* a zeroed header and zeroed cells, then set_bits
TableMut_init(bits) ==
    [header |-> set_bits([htype |-> 0, bits |-> 0], bits), cells |-> EmptyMap]

cell_mut(table, index) ==
    IF index \in DOMAIN table.cells THEN table.cells[index] ELSE ZeroCell

TableMut_index(table, key) == LowBits(key, table.header.bits)

\* TableMut_next_key that leaves the key as it is
TableMut_next_key_stuck(table, key) == key

TableMut_next_key(table, key) == Shr(key, table.header.bits)

\* TableMut_decrement_bits that takes off the number of cells of the table,
\* 1 << bits, for its number of bits
TableMut_decrement_bits_cells(table, remaining) ==
    IF remaining < 2 ^ table.header.bits THEN 0 ELSE remaining - 2 ^ table.header.bits

TableMut_decrement_bits(table, remaining) ==
    IF remaining < table.header.bits THEN 0 ELSE remaining - table.header.bits

Table_cell(table, index) ==
    IF index \in DOMAIN table.cells THEN table.cells[index] ELSE ZeroCell

Table_index(table, key) == LowBits(key, table.header.bits)

\* Table_next_key with the fanout of the tests written into it
Table_next_key_fixed(table, key) == Shr(key, 2)

Table_next_key(table, key) == Shr(key, table.header.bits)

Table_decrement_bits(table, remaining) ==
    IF remaining < table.header.bits THEN 0 ELSE remaining - table.header.bits

(***************************************************************************)
(* string_slice.rs                                                         *)
(***************************************************************************)
required_len(s) == Len(s) + 1

\* the bytes String::init leaves in a zeroed buffer of required_len(s)
String_init(s) == s \o <<0>>

Intern_new == [strings |-> <<>>, seen |-> EmptyMap]

\* Intern_add that appends a string it has seen once more
Intern_add_again(intern, s) ==
    LET index == Len(intern.strings)
    IN [intern |-> [strings |-> intern.strings \o String_init(s),
                    seen |-> [t \in DOMAIN intern.seen \cup {s} |-> 
                                 IF t = s THEN index ELSE intern.seen[t]]],
        index |-> index]

\* Intern::add: the pool after the call and the offset returned
Intern_add(intern, s) ==
    IF s \in DOMAIN intern.seen
    THEN [intern |-> intern, index |-> intern.seen[s]]
    ELSE LET index == Len(intern.strings)
         IN [intern |-> [strings |-> intern.strings \o String_init(s),
                         seen |-> intern.seen @@ (s :> index)],
             index |-> index]

(***************************************************************************)
(* lib.rs: Builder                                                         *)
(***************************************************************************)
\* a Root after set_type, set_table_offset, set_string_offset
Root_new == [htype |-> Type_Root, root_table_offset |-> 0, string_offset |-> 0]

\* reserve_header: the index is the zero-filled root header, then typed
reserve_header(b) ==
    [b EXCEPT !.index = [len |-> RootSize, root |-> Root_new, tables |-> EmptyMap]]

Builder_new(bits) ==
    reserve_header([bits |-> bits,
                    index |-> [len |-> 0, root |-> Root_new, tables |-> EmptyMap],
                    strings |-> Intern_new])

\* allocate_string that returns the offset at which the pool ends after the
\* call, not the offset of the string
allocate_string_end(b, s) ==
    LET a == Intern_add(b.strings, s)
    IN [b |-> [b EXCEPT !.strings = a.intern], index |-> Len(a.intern.strings)]

\* allocate_string: the builder after the call and the offset returned
allocate_string(b, s) ==
    LET a == Intern_add(b.strings, s)
    IN [b |-> [b EXCEPT !.strings = a.intern], index |-> a.index]

\* header(): the root overlay at offset 0
header(b) == b.index.root

\* append_table: the builder after the call and the offset returned
append_table(b) ==
    LET index == b.index.len
        size == TableSize(b.bits)
    IN [b |-> [b EXCEPT !.index.len = index + size,
                        !.index.tables = b.index.tables @@ (index :> TableMut_init(b.bits))],
        index |-> index]

\* TableMut::overlay_mut(&mut self.index[table_index..])
overlay_mut(b, offset) == b.index.tables[offset]

\* the write through cell_mut(index) of the table overlaid at offset
WriteCell(b, offset, index, cell) ==
    LET t == b.index.tables[offset]
    IN [b EXCEPT !.index.tables[offset].cells =
            IF index \in DOMAIN t.cells
            THEN [t.cells EXCEPT ![index] = cell]
            ELSE t.cells @@ (index :> cell)]

\* the locals of insert; outside a call, and the locals of a split outside a
\* split, they hold these values
IdleFrame ==
    [pc |-> "idle", key |-> {}, value |-> <<>>, remaining_bits |-> 0,
     running_key |-> {}, table_index |-> 0,
     str_index |-> 0, str_key |-> {}, new_table_index |-> 0]

\* insert up to the loop: lazy creation of the root table, then the registers
insert_enter(b, key, value) ==
    LET root_table_initialized == header(b).root_table_offset # 0
        b1 == IF root_table_initialized THEN b
              ELSE LET a == append_table(b)
                   IN [a.b EXCEPT !.index.root.root_table_offset = a.index]
    IN [b |-> b1,
        f |-> [IdleFrame EXCEPT !.pc = "loop", !.key = key, !.value = value,
                                !.remaining_bits = KeyWidth, !.running_key = key,
                                !.table_index = header(b1).root_table_offset]]

\* the cell the loop iteration dispatches on
current_cell(m) ==
    LET table == overlay_mut(m.b, m.f.table_index)
    IN cell_mut(table, TableMut_index(table, m.f.running_key))

\* cell::Type::Empty branch
insert_empty(m) ==
    LET a == allocate_string(m.b, m.f.value)
        table == overlay_mut(a.b, m.f.table_index)
        index == TableMut_index(table, m.f.running_key)
        cell == become_string_ptr(cell_mut(table, index), a.index, m.f.key)
    IN [b |-> WriteCell(a.b, m.f.table_index, index, cell),
        f |-> [m.f EXCEPT !.remaining_bits = 0]]

\* split_append that appends the table and leaves the colliding cell as it is
split_append_unlinked(m) ==
    LET a == append_table(m.b)
    IN [b |-> a.b, new_table_index |-> a.index]

\* cell::Type::StringPtr branch, first half of a split: the new table is
\* appended and the colliding cell is made a pointer to it
split_append(m) ==
    LET table == overlay_mut(m.b, m.f.table_index)
        index == TableMut_index(table, m.f.running_key)
        a == append_table(m.b)
    IN [b |-> WriteCell(a.b, m.f.table_index, index,
                        become_table_ptr(cell_mut(table, index), a.index)),
        new_table_index |-> a.index]

\* split_place that stores the shifted key of the old string in its cell
split_place_shifted_key(b, new_table_index, new_str_key0, str_index, str_key) ==
    LET new_table == overlay_mut(b, new_table_index)
        new_str_key == TableMut_next_key(new_table, new_str_key0)
        new_cell_index == TableMut_index(new_table, new_str_key)
    IN WriteCell(b, new_table_index, new_cell_index,
                 become_string_ptr(cell_mut(new_table, new_cell_index), str_index,
                                   new_str_key))

\* split_place that leaves out next_key and takes the slot of the level above
split_place_same_level(b, new_table_index, new_str_key0, str_index, str_key) ==
    LET new_table == overlay_mut(b, new_table_index)
        new_cell_index == TableMut_index(new_table, new_str_key0)
    IN WriteCell(b, new_table_index, new_cell_index,
                 become_string_ptr(cell_mut(new_table, new_cell_index), str_index, str_key))

\* second half of a split: the old string is placed into the new table
split_place(b, new_table_index, new_str_key0, str_index, str_key) ==
    LET new_table == overlay_mut(b, new_table_index)
        new_str_key == TableMut_next_key(new_table, new_str_key0)
        new_cell_index == TableMut_index(new_table, new_str_key)
    IN WriteCell(b, new_table_index, new_cell_index,
                 become_string_ptr(cell_mut(new_table, new_cell_index), str_index, str_key))

\* insert_string_ptr where a double insert replaces the value
insert_string_ptr_replace(m) ==
    LET sk == string_index_and_key(current_cell(m))
        str_index == sk[1]
        str_key == sk[2]
    IN IF str_key = m.f.key
       THEN [b |-> insert_empty(m).b, f |-> IdleFrame]
       ELSE LET new_str_key == Shr(str_key, KeyWidth - m.f.remaining_bits)
                a == split_append(m)
            IN [b |-> split_place(a.b, a.new_table_index, new_str_key, str_index, str_key),
                f |-> m.f]

\* insert_string_ptr where a double insert interns its value before it returns
insert_string_ptr_intern(m) ==
    LET sk == string_index_and_key(current_cell(m))
        str_index == sk[1]
        str_key == sk[2]
    IN IF str_key = m.f.key
       THEN [b |-> allocate_string(m.b, m.f.value).b, f |-> IdleFrame]
       ELSE LET new_str_key == Shr(str_key, KeyWidth - m.f.remaining_bits)
                a == split_append(m)
            IN [b |-> split_place(a.b, a.new_table_index, new_str_key, str_index, str_key),
                f |-> m.f]

\* cell::Type::StringPtr branch: a double insert returns, a collision splits
insert_string_ptr(m) ==
    LET sk == string_index_and_key(current_cell(m))
        str_index == sk[1]
        str_key == sk[2]
    IN IF str_key = m.f.key
       THEN [b |-> m.b, f |-> IdleFrame]
       ELSE LET new_str_key == Shr(str_key, KeyWidth - m.f.remaining_bits)
                a == split_append(m)
            IN [b |-> split_place(a.b, a.new_table_index, new_str_key, str_index, str_key),
                f |-> m.f]

\* insert_table_ptr that follows the pointer without trimming the key
insert_table_ptr_same_key(m) ==
    LET next == table_index(current_cell(m))
        table == overlay_mut(m.b, next)
    IN [b |-> m.b,
        f |-> [m.f EXCEPT !.table_index = next,
                          !.remaining_bits = TableMut_decrement_bits(table, m.f.remaining_bits)]]

\* cell::Type::TablePtr branch
insert_table_ptr(m) ==
    LET next == table_index(current_cell(m))
        table == overlay_mut(m.b, next)
    IN [b |-> m.b,
        f |-> [m.f EXCEPT !.table_index = next,
                          !.running_key = TableMut_next_key(table, m.f.running_key),
                          !.remaining_bits = TableMut_decrement_bits(table, m.f.remaining_bits)]]

\* one iteration of the loop of insert
insert_iteration(m) ==
    IF m.f.remaining_bits = 0 THEN [b |-> m.b, f |-> IdleFrame]
    ELSE LET t == get_type(current_cell(m))
         IN IF t = "Empty" THEN insert_empty(m)
            ELSE IF t = "StringPtr" THEN insert_string_ptr(m)
            ELSE insert_table_ptr(m)

\* Builder::insert as one call: the iterations up to the return
RECURSIVE insert_loop(_)
insert_loop(m) == IF m.f.pc = "idle" THEN m.b ELSE insert_loop(insert_iteration(m))

insert(b, key, value) == insert_loop(insert_enter(b, key, value))

\* build that sets string_offset only when a root table exists
build_if_inserted(b) ==
    LET len == b.index.len
        index == IF b.index.root.root_table_offset = 0 THEN b.index
                 ELSE [b.index EXCEPT !.root.string_offset = len]
    IN [size |-> len + Len(b.strings.strings), index |-> index, pool |-> b.strings.strings]

\* Builder::build: the byte vector returned, the pool after the index
build(b) ==
    LET len == b.index.len
        index == [b.index EXCEPT !.root.string_offset = len]
    IN [size |-> len + Len(b.strings.strings), index |-> index, pool |-> b.strings.strings]

(***************************************************************************)
(* The byte layout of a built buffer (64-bit little-endian target).        *)
(***************************************************************************)
\* byte r of a header::Root: htype u32, pad0, root_table_offset, string_offset
RootByte(root, r) ==
    IF r < 4 THEN UsizeByte(root.htype, r)
    ELSE IF r < 8 THEN 0
    ELSE IF r < 16 THEN UsizeByte(root.root_table_offset, r - 8)
    ELSE UsizeByte(root.string_offset, r - 16)

\* byte r of a packed cell::Instance: c_type u8, index usize, string_key u64
CellByte(cell, r) ==
    IF r = 0 THEN cell.c_type
    ELSE IF r < 9 THEN UsizeByte(cell.index, r - 1)
    ELSE KeyByte(cell.string_key, r - 9)

\* byte r of a table block: TableHeader (htype u32, pad0, bits u8, pad1), cells
TableByte(table, r) ==
    IF r < 4 THEN UsizeByte(table.header.htype, r)
    ELSE IF r < 8 THEN 0
    ELSE IF r = 8 THEN table.header.bits
    ELSE IF r < TableHeaderSize THEN 0
    ELSE CellByte(Table_cell(table, (r - TableHeaderSize) \div CellSize),
                  (r - TableHeaderSize) % CellSize)

\* the byte at offset o < buf.size of a buffer returned by build
ByteAt(buf, o) ==
    IF o < RootSize THEN RootByte(buf.index.root, o)
    ELSE IF o < buf.index.len
    THEN LET t == CHOOSE t \in DOMAIN buf.index.tables :
                      t <= o /\ o < t + TableSize(buf.index.tables[t].header.bits)
         IN TableByte(buf.index.tables[t], o - t)
    ELSE buf.pool[o - buf.index.len + 1]

\* the buffer as a sequence of bytes
Bytes(buf) == [i \in 1 .. buf.size |-> ByteAt(buf, i - 1)]

\* the first n bytes of a buffer
Prefix(buf, n) == [buf EXCEPT !.size = n]

(***************************************************************************)
(* lib.rs: Map                                                             *)
(***************************************************************************)
None == [kind |-> "None", val |-> <<>>]
Some(s) == [kind |-> "Some", val |-> s]
Panic == [kind |-> "panic", val |-> <<>>]

Map_new(rep) == [rep |-> rep]

\* Map::header: the assertion that the root header fits
header_fits(map) == map.rep.size >= RootSize

\* Table::overlay(&self.rep[offset..]) succeeds: a table block lies there
overlay_ok(rep, offset) ==
    /\ offset \in DOMAIN rep.index.tables
    /\ rep.index.tables[offset].header.htype = Type_Table
    /\ offset + TableSize(rep.index.tables[offset].header.bits) <= rep.size

\* the offset of the first NUL byte at or after offset o, or -1 when the scan
\* leaves the buffer
RECURSIVE nul_from(_, _)
nul_from(rep, o) ==
    IF o >= rep.size THEN -1
    ELSE IF ByteAt(rep, o) = 0 THEN o
    ELSE nul_from(rep, o + 1)

\* CStr::from_ptr: the bytes from offset o up to the first NUL; a scan that
\* leaves the buffer is reported as <<-1>>
from_ptr(rep, o) ==
    LET end == nul_from(rep, o)
    IN IF end = -1 THEN <<-1>>
       ELSE [i \in 1 .. (end - o) |-> ByteAt(rep, o + i - 1)]

\* the loop of get_cstr
RECURSIVE get_walk(_, _, _, _, _, _)
get_walk(rep, key, string_offset, remaining_bits, running_key, running_table_index) ==
    IF remaining_bits = 0 THEN None
    ELSE IF ~overlay_ok(rep, running_table_index) THEN Panic
    ELSE LET table == rep.index.tables[running_table_index]
             cell == Table_cell(table, Table_index(table, running_key))
             t == get_type(cell)
         IN IF t = "Empty" THEN None
            ELSE IF t = "StringPtr"
            THEN LET sk == string_index_and_key(cell)
                 IN IF key # sk[2] THEN None
                    ELSE LET cstr == from_ptr(rep, string_offset + sk[1])
                         IN IF cstr = <<-1>> THEN Panic ELSE Some(cstr)
            ELSE IF t = "TablePtr"
            THEN get_walk(rep, key, string_offset,
                          Table_decrement_bits(table, remaining_bits),
                          Table_next_key(table, running_key),
                          table_index(cell))
            ELSE Panic

\* get_cstr that answers a buffer too short for the root header with a miss
get_cstr_short_miss(map, key) ==
    IF ~header_fits(map) THEN None
    ELSE LET root == map.rep.index.root
         IN IF ~(root.root_table_offset > 0) THEN Panic
            ELSE get_walk(map.rep, key, root.string_offset, KeyWidth, key,
                          root.root_table_offset)

get_cstr(map, key) ==
    IF ~header_fits(map) THEN Panic
    ELSE LET root == map.rep.index.root
         IN IF ~(root.root_table_offset > 0) THEN Panic
            ELSE get_walk(map.rep, key, root.string_offset, KeyWidth, key,
                          root.root_table_offset)

\* Map::get: get_cstr, then to_str, which accepts the ASCII strings of the model
get(map, key) ==
    LET c == get_cstr(map, key)
    IN IF c.kind = "Some" /\ \E i \in 1 .. Len(c.val) : c.val[i] > 127
       THEN Panic ELSE c

(***************************************************************************)
(* The program: one builder, the calls made on it, the buffer it returns,  *)
(* a Map over a buffer and the outcome of the last lookup.                 *)
(* For the comparison of fanouts, fleet holds one builder for each fanout   *)
(* of BitsSet, all given the same calls, and fleet_bytes what they build.  *)
(***************************************************************************)
VARIABLES builder, frame, calls, bytes, map, got, fleet, fleet_bytes

vars == <<builder, frame, calls, bytes, map, got, fleet, fleet_bytes>>

NoBytes == [size |-> -1]
NoMap == [rep |-> NoBytes]
NoGet == [key |-> {}, out |-> [kind |-> "no call", val |-> <<>>]]

Init ==
    /\ \E bits \in BitsSet : builder = Builder_new(bits)
    /\ frame = IdleFrame
    /\ calls = <<>>
    /\ bytes = NoBytes
    /\ map = NoMap
    /\ got = NoGet
    /\ fleet = [bits \in BitsSet |-> Builder_new(bits)]
    /\ fleet_bytes = NoBytes

Machine == [b |-> builder, f |-> frame]

\* builder.insert(key, value) is called
InsertCall(key, value) ==
    /\ frame.pc = "idle"
    /\ Len(calls) < MaxInserts
    /\ LET m == insert_enter(builder, key, value)
       IN builder' = m.b /\ frame' = m.f
    /\ calls' = Append(calls, <<key, value>>)
    /\ UNCHANGED <<bytes, map, got, fleet, fleet_bytes>>

Iterate(m) ==
    /\ builder' = m.b
    /\ frame' = m.f
    /\ UNCHANGED <<calls, bytes, map, got, fleet, fleet_bytes>>

\* the loop finds remaining_bits == 0 and insert returns
LoopBreak ==
    /\ frame.pc = "loop"
    /\ frame.remaining_bits = 0
    /\ Iterate(insert_iteration(Machine))

LoopEmpty ==
    /\ frame.pc = "loop"
    /\ frame.remaining_bits # 0
    /\ get_type(current_cell(Machine)) = "Empty"
    /\ Iterate(insert_iteration(Machine))

LoopDoubleInsert ==
    /\ frame.pc = "loop"
    /\ frame.remaining_bits # 0
    /\ get_type(current_cell(Machine)) = "StringPtr"
    /\ string_index_and_key(current_cell(Machine))[2] = frame.key
    /\ Iterate(insert_iteration(Machine))

LoopSplit ==
    /\ frame.pc = "loop"
    /\ frame.remaining_bits # 0
    /\ get_type(current_cell(Machine)) = "StringPtr"
    /\ string_index_and_key(current_cell(Machine))[2] # frame.key
    /\ Iterate(insert_iteration(Machine))

LoopDescend ==
    /\ frame.pc = "loop"
    /\ frame.remaining_bits # 0
    /\ get_type(current_cell(Machine)) = "TablePtr"
    /\ Iterate(insert_iteration(Machine))

\* what is left of a builder that build(mut self) has consumed: its index and
\* its strings are moved into the result (bits is kept for reference)
Moved(b) ==
    [bits |-> b.bits,
     index |-> [len |-> 0, root |-> [htype |-> 0, root_table_offset |-> 0,
                                     string_offset |-> 0],
                tables |-> EmptyMap],
     strings |-> Intern_new]

\* builder.build() consumes the builder
Build ==
    /\ frame.pc = "idle"
    /\ bytes' = build(builder)
    /\ builder' = Moved(builder)
    /\ frame' = [frame EXCEPT !.pc = "moved"]
    /\ UNCHANGED <<calls, map, got, fleet, fleet_bytes>>

\* Map::new over the built buffer, or over a buffer too short for a root
\* header.  No byte of a short buffer is ever read, so the short buffers are
\* cut from the empty build alone.
MapNew(n) ==
    /\ bytes # NoBytes
    /\ map = NoMap
    /\ n <= bytes.size
    /\ n < bytes.size => calls = <<>>
    /\ map' = Map_new(Prefix(bytes, n))
    /\ UNCHANGED <<builder, frame, calls, bytes, got, fleet, fleet_bytes>>

\* map.get(key): the Map borrows the buffer immutably and get takes &self, so
\* a lookup leaves nothing behind for the next one; got keeps one outcome
MapGet(key) ==
    /\ map # NoMap
    /\ got = NoGet
    /\ got' = [key |-> key, out |-> get(map, key)]
    /\ UNCHANGED <<builder, frame, calls, bytes, map, fleet, fleet_bytes>>

Next ==
    \/ \E key \in Keys, value \in Values : InsertCall(key, value)
    \/ LoopBreak
    \/ LoopEmpty
    \/ LoopDoubleInsert
    \/ LoopSplit
    \/ LoopDescend
    \/ Build
    \/ \E n \in {0, RootSize - 1, bytes.size} : MapNew(n)
    \/ \E key \in Keys : MapGet(key)

Spec == Init /\ [][Next]_vars

(***************************************************************************)
(* The same calls made on a builder of every fanout, each call run to its  *)
(* return, and the builders then built together.                           *)
(***************************************************************************)
FleetInsert(key, value) ==
    /\ fleet_bytes = NoBytes
    /\ Len(calls) < MaxInserts
    /\ fleet' = [bits \in BitsSet |-> insert(fleet[bits], key, value)]
    /\ calls' = Append(calls, <<key, value>>)
    /\ UNCHANGED <<builder, frame, bytes, map, got, fleet_bytes>>

FleetBuild ==
    /\ fleet_bytes = NoBytes
    /\ fleet_bytes' = [bits \in BitsSet |-> build(fleet[bits])]
    /\ UNCHANGED <<builder, frame, calls, bytes, map, got, fleet>>

NextBits ==
    \/ \E key \in Keys, value \in Values : FleetInsert(key, value)
    \/ FleetBuild

InitBits ==
    /\ builder = Builder_new(MinBits)
    /\ frame = IdleFrame
    /\ calls = <<>>
    /\ bytes = NoBytes
    /\ map = NoMap
    /\ got = NoGet
    /\ fleet = [bits \in BitsSet |-> Builder_new(bits)]
    /\ fleet_bytes = NoBytes

SpecBits == InitBits /\ [][NextBits]_vars

(***************************************************************************)
(* One builder given pairs with distinct keys, each call run to its        *)
(* return, and then built: the orders in which a set of pairs can be       *)
(* inserted are the sequences of calls this reaches.                       *)
(***************************************************************************)
OrderInsert(key, value) ==
    /\ frame.pc = "idle"
    /\ Len(calls) < MaxInserts
    /\ key \notin {calls[i][1] : i \in 1 .. Len(calls)}
    /\ builder' = insert(builder, key, value)
    /\ calls' = Append(calls, <<key, value>>)
    /\ UNCHANGED <<frame, bytes, map, got, fleet, fleet_bytes>>

NextOrder ==
    \/ \E key \in Keys, value \in Values : OrderInsert(key, value)
    \/ Build

SpecOrder == Init /\ [][NextOrder]_vars

(***************************************************************************)
(* The walk of insert statement by statement: a split is two writes, the   *)
(* colliding cell made a pointer to the appended table and then the old    *)
(* string placed into that table.  A builder of every fanout that          *)
(* Builder::new accepts takes the calls.                                   *)
(***************************************************************************)
WalkBits == MinBits .. MaxBits

WalkCall(key, value) ==
    /\ frame.pc = "idle"
    /\ Len(calls) < MaxWalkInserts
    /\ LET m == insert_enter(builder, key, value)
       IN builder' = m.b /\ frame' = m.f
    /\ calls' = Append(calls, <<key, value>>)
    /\ UNCHANGED <<bytes, map, got, fleet, fleet_bytes>>

\* lib.rs:190-213: the old string is read, the table appended and the cell
\* made a pointer to it
SplitAppend ==
    /\ frame.pc = "loop"
    /\ frame.remaining_bits # 0
    /\ get_type(current_cell(Machine)) = "StringPtr"
    /\ string_index_and_key(current_cell(Machine))[2] # frame.key
    /\ LET sk == string_index_and_key(current_cell(Machine))
           a == split_append(Machine)
       IN /\ builder' = a.b
          /\ frame' = [frame EXCEPT !.pc = "split", !.str_index = sk[1],
                                    !.str_key = sk[2],
                                    !.new_table_index = a.new_table_index]
    /\ UNCHANGED <<calls, bytes, map, got, fleet, fleet_bytes>>

\* lib.rs:215-222: the old string is placed into the new table and the loop
\* repeats the iteration
SplitPlace ==
    /\ frame.pc = "split"
    /\ builder' = split_place(builder, frame.new_table_index,
                              Shr(frame.str_key, KeyWidth - frame.remaining_bits),
                              frame.str_index, frame.str_key)
    /\ frame' = [frame EXCEPT !.pc = "loop", !.str_index = 0, !.str_key = {},
                              !.new_table_index = 0]
    /\ UNCHANGED <<calls, bytes, map, got, fleet, fleet_bytes>>

\* the statements of a running insert
WalkStep ==
    \/ LoopBreak
    \/ LoopEmpty
    \/ LoopDoubleInsert
    \/ SplitAppend
    \/ SplitPlace
    \/ LoopDescend

NextWalk ==
    \/ \E key \in Keys, value \in Values : WalkCall(key, value)
    \/ WalkStep

InitWalk ==
    /\ \E bits \in WalkBits : builder = Builder_new(bits)
    /\ frame = IdleFrame
    /\ calls = <<>>
    /\ bytes = NoBytes
    /\ map = NoMap
    /\ got = NoGet
    /\ fleet = [bits \in BitsSet |-> Builder_new(bits)]
    /\ fleet_bytes = NoBytes

SpecWalk == InitWalk /\ [][NextWalk]_vars

(***************************************************************************)
(* What the calls made so far ask of the map (the reference map the tests  *)
(* keep beside the builder).                                               *)
(***************************************************************************)
Inserted == {calls[i][1] : i \in 1 .. Len(calls)}

FirstCall(key) == CHOOSE i \in 1 .. Len(calls) :
    calls[i][1] = key /\ \A j \in 1 .. (i - 1) : calls[j][1] # key

FirstValue(key) == calls[FirstCall(key)][2]

DistinctKeys == \A i, j \in 1 .. Len(calls) : calls[i][1] = calls[j][1] => i = j

\* a Map over the whole built buffer has answered a lookup
Looked == map # NoMap /\ map.rep = bytes /\ got # NoGet

(***************************************************************************)
(* C1.  Round trip: with distinct keys inserted in any order, get(k)       *)
(* returns v for every inserted (k, v) and absence for every key that was  *)
(* not inserted; the set of pairs may be any set, the empty one included.  *)
(***************************************************************************)
RoundTrip ==
    (Looked /\ DistinctKeys) =>
        got.out = (IF got.key \in Inserted THEN Some(FirstValue(got.key)) ELSE None)

\* C1 on the maps that hold at least one pair, where the lookup does not stop
\* at the assertion on the root table offset
RoundTripNonEmpty ==
    (Looked /\ DistinctKeys /\ calls # <<>>) =>
        got.out = (IF got.key \in Inserted THEN Some(FirstValue(got.key)) ELSE None)

RoundTripHit ==
    /\ Looked /\ DistinctKeys /\ Len(calls) = 3
    /\ got.key \in Inserted /\ got.out = Some(FirstValue(got.key))
    /\ Cardinality(DOMAIN bytes.index.tables) > 1

InsertedTwice(key) ==
    \E i, j \in 1 .. Len(calls) :
        i < j /\ calls[i][1] = key /\ calls[j][1] = key /\ calls[i][2] # calls[j][2]

(***************************************************************************)
(* C2.  First write wins: when a key was inserted with v1 and later with   *)
(* another value v2, whatever else was inserted around them, get(k) is v1. *)
(***************************************************************************)
FirstWriteWins ==
    (Looked /\ InsertedTwice(got.key)) => got.out = Some(FirstValue(got.key))

FirstWriteWinsSeen ==
    /\ Looked /\ InsertedTwice(got.key)
    /\ got.out = Some(Hello)
    /\ \E i \in 1 .. Len(calls) : calls[i] = <<got.key, World>>
    /\ \E i \in 1 .. Len(calls) : calls[i][1] # got.key

(***************************************************************************)
(* C3.  Empty map: build with no insert gives a buffer whose               *)
(* root_table_offset is 0, and every get on it returns absence.            *)
(***************************************************************************)
EmptyMapMisses ==
    (bytes # NoBytes /\ calls = <<>>) =>
        /\ bytes.index.root.root_table_offset = 0
        /\ Looked => got.out = None

RootHeaderBytes(string_offset) ==
    <<Type_Root, 0, 0, 0, 0, 0, 0, 0, 0, 0, 0, 0, 0, 0, 0, 0,
      string_offset, 0, 0, 0, 0, 0, 0, 0>>

(***************************************************************************)
(* C4.  As claimed: build sets string_offset only after an insert, and     *)
(* with no insert returns the root header as construction wrote it, with   *)
(* string_offset = 0.                                                      *)
(***************************************************************************)
StringOffsetOnlyAfterInsert ==
    bytes # NoBytes =>
        /\ calls # <<>> => bytes.index.root.string_offset = bytes.index.len
        /\ calls = <<>> => Bytes(bytes) = RootHeaderBytes(0)

\* C4 as amended: build sets string_offset to the length of the index in
\* every case; with no insert the buffer is the root header alone, with
\* type ROOT, root_table_offset 0 and string_offset 24.
StringOffsetAlways ==
    bytes # NoBytes =>
        /\ bytes.index.root.string_offset = bytes.index.len
        /\ calls = <<>> => Bytes(bytes) = RootHeaderBytes(RootSize)

BuiltEmpty == bytes # NoBytes /\ calls = <<>> /\ bytes.size = RootSize

ReferenceLiteral ==
    <<1, 0, 0, 0, 0, 0, 0, 0, 24, 0, 0, 0, 0, 0, 0, 0, 108, 0, 0, 0, 0, 0, 0, 0, 2, 0, 0, 0,
      0, 0, 0, 0, 2, 0, 0, 0, 0, 0, 0, 0, 1, 7, 0, 0, 0, 0, 0, 0, 0, 84, 0, 0, 0, 0, 0, 0, 0,
      0, 0, 0, 0, 0, 0, 0, 0, 0, 0, 0, 0, 0, 0, 0, 0, 0, 1, 0, 0, 0, 0, 0, 0, 0, 0, 42, 0, 0,
      0, 0, 0, 0, 0, 0, 0, 0, 0, 0, 0, 0, 0, 0, 0, 0, 0, 0, 0, 0, 0, 0, 72, 101, 108, 108,
      111, 33, 0, 87, 111, 114, 108, 100, 33, 0>>

ReferenceCalls == <<<<K42, Hello>>, <<K84, World>>>>

\* the blocks of an index lie back to back after the root header
BlocksBackToBack(index, bits) ==
    LET n == Cardinality(DOMAIN index.tables)
        stride == 16 + 17 * (2 ^ bits)
    IN /\ DOMAIN index.tables = {24 + i * stride : i \in 0 .. (n - 1)}
       /\ index.len = 24 + n * stride
       /\ n > 0 => index.root.root_table_offset = 24

(***************************************************************************)
(* C5.  Binary layout: the 24-byte root header, then the table blocks in   *)
(* creation order, each of 16 + 17 * 2^bits bytes and the root table at    *)
(* offset 24, then the string pool at string_offset = index length; and    *)
(* bits = 2, insert(42, "Hello!"), insert(84, "World!") builds the         *)
(* 122-byte reference literal.                                             *)
(***************************************************************************)
BinaryLayout ==
    /\ bytes = NoBytes => BlocksBackToBack(builder.index, builder.bits)
    /\ bytes # NoBytes =>
        /\ BlocksBackToBack(bytes.index, builder.bits)
        /\ bytes.index.root.string_offset = bytes.index.len
        /\ bytes.size = bytes.index.len + Len(bytes.pool)
        /\ \A o \in 0 .. (Len(bytes.pool) - 1) :
               ByteAt(bytes, bytes.index.root.string_offset + o) = bytes.pool[o + 1]
        /\ (builder.bits = 2 /\ calls = ReferenceCalls) => Bytes(bytes) = ReferenceLiteral

\* a table block is only ever appended after the blocks that exist
CreationOrder ==
    [][\A new \in DOMAIN builder'.index.tables \ DOMAIN builder.index.tables :
           \A old \in DOMAIN builder.index.tables : old < new]_vars

ReferenceBuilt ==
    /\ bytes # NoBytes /\ builder.bits = 2 /\ calls = ReferenceCalls
    /\ Bytes(bytes) = ReferenceLiteral
    /\ Len(Bytes(bytes)) = 122

\* the offsets at which the entries of a pool begin
EntryStarts(pool) ==
    {o \in 0 .. (Len(pool) - 1) : o = 0 \/ pool[o] = 0}

\* the entry of a pool that begins at offset o, without its NUL
RECURSIVE EntryAt(_, _)
EntryAt(pool, o) ==
    IF o >= Len(pool) \/ pool[o + 1] = 0 THEN <<>>
    ELSE <<pool[o + 1]>> \o EntryAt(pool, o + 1)

\* the STRING_PTR cells of an index
StringCells(index) ==
    {c \in UNION {{index.tables[t].cells[i] : i \in DOMAIN index.tables[t].cells} :
                     t \in DOMAIN index.tables} :
        c.c_type = Type_StringPtr}

\* the pool offsets that the STRING_PTR cells holding a key carry
OffsetsOf(index, key) ==
    {c.index : c \in {c \in StringCells(index) : c.string_key = key}}

SharedValue(k1, k2) ==
    /\ k1 \in Inserted /\ k2 \in Inserted /\ k1 # k2
    /\ FirstValue(k1) = FirstValue(k2)

(***************************************************************************)
(* C7.  Deduplication: when two distinct keys are inserted with the same   *)
(* string, the pool holds that string and its NUL exactly once, and the    *)
(* STRING_PTR cells of both keys carry the same pool offset.               *)
(***************************************************************************)
Deduplication ==
    bytes # NoBytes =>
        LET entry == [o \in EntryStarts(bytes.pool) |-> EntryAt(bytes.pool, o)]
            cells == StringCells(bytes.index)
            offsets == [k \in Inserted |->
                           {c.index : c \in {x \in cells : x.string_key = k}}]
        IN \A k1, k2 \in Inserted :
               SharedValue(k1, k2) =>
                   /\ Cardinality({o \in DOMAIN entry : entry[o] = FirstValue(k1)}) = 1
                   /\ \E o \in DOMAIN entry : offsets[k1] = {o} /\ offsets[k2] = {o}

DeduplicationSeen ==
    /\ bytes # NoBytes
    /\ \E k1, k2 \in Keys : SharedValue(k1, k2) /\ FirstValue(k1) = World
    /\ \E k \in Inserted : FirstValue(k) = Hello
    /\ OffsetsOf(bytes.index, calls[1][1]) # OffsetsOf(bytes.index, calls[3][1])

(***************************************************************************)
(* C8.  As claimed: Map::new validates that the root header fits, so a Map *)
(* over an empty buffer, or one shorter than the root header, never comes  *)
(* to exist.                                                               *)
(***************************************************************************)
MapNewValidates == map # NoMap => map.rep.size >= RootSize

\* C8 as amended: Map::new validates nothing and succeeds on an empty or too
\* short buffer; the fatal error is raised by the first get on that Map.
ShortBufferFailsAtGet ==
    (map # NoMap /\ map.rep.size < 24 /\ got # NoGet) => got.out = Panic

ShortBufferLookedUp ==
    /\ map # NoMap /\ map.rep.size = 0
    /\ got # NoGet /\ got.key = KMax /\ got.out = Panic

CellStep(old, new, before, after) ==
    /\ old.c_type = Type_Empty => new.c_type \in {Type_Empty, Type_StringPtr}
    /\ old.c_type = Type_StringPtr => new.c_type \in {Type_StringPtr, Type_TablePtr}
    /\ old.c_type = Type_TablePtr => new = old
    /\ (old.c_type = Type_StringPtr /\ new.c_type = Type_TablePtr) =>
           /\ new.index \notin DOMAIN before.tables
           /\ new.index \in DOMAIN after.tables
           /\ \E i \in DOMAIN after.tables[new.index].cells :
                  after.tables[new.index].cells[i] =
                      [c_type |-> Type_StringPtr, index |-> old.index,
                       string_key |-> old.string_key]

(***************************************************************************)
(* C9.  Cell lifecycle: a cell's tag only changes EMPTY -> STRING_PTR or   *)
(* STRING_PTR -> TABLE_PTR; a TABLE_PTR cell never changes again, no cell  *)
(* returns to EMPTY, and when a STRING_PTR cell becomes TABLE_PTR its      *)
(* (string index, stored_key) pair is in a cell of the table appended by   *)
(* that step.  The steps are the loop iterations of insert, for as long as *)
(* the builder exists (build consumes it).                                 *)
(***************************************************************************)
CellLifecycle ==
    [][frame'.pc # "moved" =>
           /\ DOMAIN builder.index.tables \subseteq DOMAIN builder'.index.tables
           /\ \A t \in DOMAIN builder.index.tables :
                  /\ DOMAIN builder.index.tables[t].cells
                         \subseteq DOMAIN builder'.index.tables[t].cells
                  /\ \A i \in DOMAIN builder'.index.tables[t].cells :
                         CellStep(cell_mut(builder.index.tables[t], i),
                                  cell_mut(builder'.index.tables[t], i),
                                  builder.index, builder'.index)]_vars

\* a split has happened and the builder went on: a TABLE_PTR cell and the
\* table it points to, which holds STRING_PTR cells
SplitSeen ==
    /\ frame.pc = "idle"
    /\ \E t \in DOMAIN builder.index.tables :
           \E i \in DOMAIN builder.index.tables[t].cells :
               LET c == builder.index.tables[t].cells[i]
               IN /\ c.c_type = Type_TablePtr
                  /\ \E j \in DOMAIN builder.index.tables[c.index].cells :
                         builder.index.tables[c.index].cells[j].c_type = Type_StringPtr

\* the slot that key takes at depth d with a fanout of bits
SlotAtDepth(key, d, bits) == LowBits(Shr(key, d * bits), bits)

\* the bit positions of a key that the slot s taken at depth d fixes to 1
SlotBits(s, d, bits) == {d * bits + i : i \in {j \in 0 .. (bits - 1) : (s \div (2 ^ j)) % 2 = 1}}

\* the subtrie of the table at offset t and depth d; low holds the bits that
\* the slots of the TABLE_PTR cells on the path from the root fix to 1 (a key
\* has those slots at depths 0 .. d - 1 exactly when its bits below d * bits
\* are low)
RECURSIVE SubtrieOk(_, _, _, _, _)
SubtrieOk(index, bits, t, d, low) ==
    \A s \in DOMAIN index.tables[t].cells :
        LET c == index.tables[t].cells[s]
        IN /\ c.c_type = Type_StringPtr =>
                  /\ SlotAtDepth(c.string_key, d, bits) = s
                  /\ {i \in c.string_key : i < d * bits} = low
           /\ c.c_type = Type_TablePtr =>
                  SubtrieOk(index, bits, c.index, d + 1, low \cup SlotBits(s, d, bits))

(***************************************************************************)
(* C10.  Trie invariant: after every completed insert, a STRING_PTR cell   *)
(* in slot s of a table at depth d has                                     *)
(* (stored_key >> (d * bits)) & (2^bits - 1) = s, and its stored_key has   *)
(* the slot indices of the TABLE_PTR cells on the path from the root.      *)
(***************************************************************************)
TrieInvariant ==
    (frame.pc = "idle" /\ builder.index.root.root_table_offset # 0) =>
        SubtrieOk(builder.index, builder.bits, builder.index.root.root_table_offset, 0, {})

\* a split placed an old string below the root, in a slot that is not the
\* slot it had in the root table
DeepStringSeen ==
    /\ frame.pc = "idle"
    /\ \E t \in DOMAIN builder.index.tables :
           /\ t # builder.index.root.root_table_offset
           /\ \E s \in DOMAIN builder.index.tables[t].cells :
                  LET c == builder.index.tables[t].cells[s]
                  IN /\ c.c_type = Type_StringPtr
                     /\ SlotAtDepth(c.string_key, 0, builder.bits) # s

\* the pairs Map::get retrieves from a buffer
Retrievable(buf) ==
    LET outs == {<<k, get(Map_new(buf), k)>> : k \in Keys}
    IN {<<o[1], o[2].val>> : o \in {p \in outs : p[2].kind = "Some"}}

(***************************************************************************)
(* C6.  Bits-invariance: for the same sequence of inserts, the set of      *)
(* (key, value) pairs that get retrieves from the built buffer is the same *)
(* for every fanout, 16 and fanouts that do not divide 64 included.        *)
(***************************************************************************)
BitsInvariance ==
    fleet_bytes # NoBytes =>
        LET pairs == [bits \in BitsSet |-> Retrievable(fleet_bytes[bits])]
        IN \A b1, b2 \in BitsSet : pairs[b1] = pairs[b2]

\* three keys were retrieved from buffers whose tries differ in shape
BitsCompared ==
    /\ fleet_bytes # NoBytes
    /\ Cardinality(Retrievable(fleet_bytes[MaxBits])) = 3
    /\ Cardinality(DOMAIN fleet_bytes[MinBits].index.tables)
           > Cardinality(DOMAIN fleet_bytes[MaxBits].index.tables)
    /\ Cardinality(DOMAIN fleet_bytes[3].index.tables)
           > Cardinality(DOMAIN fleet_bytes[MaxBits].index.tables)
    /\ \A bits \in BitsSet : fleet_bytes[bits].size # fleet_bytes[MinBits].size \/ bits = MinBits

\* the cells written in the tables of an index, each with its table and slot
CellsOf(index) ==
    UNION {{[t |-> t, s |-> s, c |-> index.tables[t].cells[s]] :
               s \in DOMAIN index.tables[t].cells} : t \in DOMAIN index.tables}

\* the pool holds a NUL at or after offset o
NulTerminated(pool, o) == \E e \in o .. (Len(pool) - 1) : pool[e + 1] = 0

(***************************************************************************)
(* C11.  Offsets in range: after every completed insert, the index of      *)
(* every STRING_PTR cell is below the length of the string pool and is the *)
(* start of a NUL-terminated entry of the pool; the index of every         *)
(* TABLE_PTR cell is the offset of a table block the builder appended      *)
(* (type TABLE, bits = the builder's bits) that lies wholly inside the     *)
(* index, and is neither 0 nor the root table.                             *)
(***************************************************************************)
OffsetsInRange ==
    frame.pc = "idle" =>
        LET index == builder.index
            pool == builder.strings.strings
            starts == EntryStarts(pool)
        IN \A x \in CellsOf(index) :
               /\ x.c.c_type = Type_StringPtr =>
                      /\ x.c.index < Len(pool)
                      /\ x.c.index \in starts
                      /\ NulTerminated(pool, x.c.index)
               /\ x.c.c_type = Type_TablePtr =>
                      /\ x.c.index \in DOMAIN index.tables
                      /\ index.tables[x.c.index].header =
                             [htype |-> Type_Table, bits |-> builder.bits]
                      /\ x.c.index >= RootSize
                      /\ x.c.index + TableSize(builder.bits) <= index.len
                      /\ x.c.index # 0
                      /\ x.c.index # index.root.root_table_offset

\* an insert returned leaving a STRING_PTR cell for the second entry of the
\* pool and a TABLE_PTR cell
OffsetsSeen ==
    /\ frame.pc = "idle"
    /\ \E x \in CellsOf(builder.index) : x.c.c_type = Type_StringPtr /\ x.c.index > 0
    /\ \E x \in CellsOf(builder.index) : x.c.c_type = Type_TablePtr

\* the keys of the calls that returned before the call that is running
EarlierKeys == {calls[i][1] : i \in 1 .. (Len(calls) - 1)}

\* this step is the entry of insert(k, v2) for a key k that is present
CallOfPresentKey ==
    /\ frame.pc = "idle" /\ frame'.pc = "loop"
    /\ calls'[Len(calls')][1] \in Inserted

\* this step is a statement of a running insert(k, v2) for a key k that is
\* present
RunningPresentKey ==
    /\ frame.pc \in {"loop", "split"}
    /\ frame.key \in EarlierKeys

(***************************************************************************)
(* C12.  Double insert is a no-op on the builder: from the call of         *)
(* insert(k, v2) for a key k that is present to its return, no step        *)
(* changes the index (headers and cells) or the string pool, also when v2  *)
(* is a string the pool does not hold: v2 is not interned.                 *)
(***************************************************************************)
DoubleInsertNoOp ==
    [][(CallOfPresentKey \/ RunningPresentKey) =>
           /\ builder'.index = builder.index
           /\ builder'.strings = builder.strings]_vars

\* insert(k, v2) has returned for a key k that was placed below the root by
\* a split, with a v2 the pool does not hold
DoubleInsertSeen ==
    /\ frame.pc = "idle" /\ Len(calls) = 3
    /\ calls[3][1] = calls[1][1] /\ calls[2][1] # calls[1][1]
    /\ calls[3][2] \notin DOMAIN builder.strings.seen
    /\ Cardinality(DOMAIN builder.index.tables) > 1

\* the builder that Builder::new(bits) and the calls cs, each run to its
\* return, leave
RECURSIVE Replay(_, _)
Replay(bits, cs) ==
    IF cs = <<>> THEN Builder_new(bits)
    ELSE LET n == Len(cs)
         IN insert(Replay(bits, SubSeq(cs, 1, n - 1)), cs[n][1], cs[n][2])

\* the builder as it was when the last call of calls was made
BeforeLastCall == Replay(builder.bits, SubSeq(calls, 1, Len(calls) - 1))

TableBlocks(b) == Cardinality(DOMAIN b.index.tables)

PoolEntries(b) == Cardinality(EntryStarts(b.strings.strings))

\* the levels of a trie of this fanout over 64-bit keys: ceil(64 / bits)
MaxLevels(bits) == (KeyWidth + bits - 1) \div bits

(***************************************************************************)
(* C13.  As claimed: a single call to insert appends at most one table     *)
(* block to the index and at most one string to the pool.                  *)
(***************************************************************************)
OneBlockPerInsert ==
    (frame.pc = "idle" /\ calls # <<>>) =>
        /\ TableBlocks(builder) - TableBlocks(BeforeLastCall) <= 1
        /\ PoolEntries(builder) - PoolEntries(BeforeLastCall) <= 1

\* C13 as amended: a single call to insert appends at most one string to the
\* pool and at most ceil(64 / bits) - 1 table blocks: the root table alone on
\* the first insert, and otherwise one block for each repetition of the split.
BlocksPerInsertBounded ==
    (frame.pc = "idle" /\ calls # <<>>) =>
        LET blocks == TableBlocks(builder) - TableBlocks(BeforeLastCall)
        IN /\ blocks <= MaxLevels(builder.bits) - 1
           /\ Len(calls) = 1 => blocks = 1
           /\ PoolEntries(builder) - PoolEntries(BeforeLastCall) <= 1
           /\ builder.index.len - BeforeLastCall.index.len
                  = blocks * TableSize(builder.bits)

\* one insert into a builder of fanout 2 appended 31 table blocks
ManyBlocksSeen ==
    /\ frame.pc = "idle" /\ Len(calls) = 2 /\ builder.bits = MinBits
    /\ TableBlocks(builder) - TableBlocks(BeforeLastCall) = 31
    /\ PoolEntries(builder) - PoolEntries(BeforeLastCall) = 1

\* what get answers on the buffer the builder holds at this moment (what
\* build would return of it)
LookupNow(key) == get(Map_new(build(builder)), key)

(***************************************************************************)
(* C14.  Insert is not atomic for the lookup walk: in the state of a split *)
(* after the colliding cell was made TABLE_PTR(new table) and before the   *)
(* old string is written into the new table, the new table is all EMPTY    *)
(* and the walk of get does not find the old key, so an insert that stops  *)
(* there leaves the old key lost; at every other statement of insert the   *)
(* keys inserted before are found, and when insert has returned every key  *)
(* inserted is found with its value.                                       *)
(***************************************************************************)
SplitNotAtomic ==
    /\ frame.pc = "split" =>
           /\ frame.str_key \in EarlierKeys
           /\ builder.index.tables[frame.new_table_index].cells = EmptyMap
           /\ LookupNow(frame.str_key) = None
           /\ \A k \in EarlierKeys \ {frame.str_key} :
                  LookupNow(k) = Some(FirstValue(k))
    /\ frame.pc = "loop" =>
           \A k \in EarlierKeys : LookupNow(k) = Some(FirstValue(k))
    /\ (frame.pc = "idle" /\ calls # <<>>) =>
           \A k \in Inserted : LookupNow(k) = Some(FirstValue(k))

\* insert stands between the two writes of a split and the old key is not
\* found
SplitWindowSeen ==
    /\ frame.pc = "split"
    /\ frame.str_key \in EarlierKeys
    /\ current_cell(Machine) = become_table_ptr(ZeroCell, frame.new_table_index)
    /\ LookupNow(frame.str_key) = None

\* the offsets within a table block of the header fields set_bits writes
\* (htype: 0 .. 3, bits: 8) and of the cells written through cell_mut
WrittenBytes(table) ==
    {0, 1, 2, 3, 8} \cup
    UNION {{TableHeaderSize + s * CellSize + r : r \in 0 .. (CellSize - 1)} :
              s \in DOMAIN table.cells}

(***************************************************************************)
(* C15.  After any sequence of inserts, every cell whose tag is EMPTY or   *)
(* TABLE_PTR has stored_key = 0 and every EMPTY cell has index = 0; a cell *)
(* converted from STRING_PTR to TABLE_PTR has its stored_key cleared; and  *)
(* every byte of a table block that is not a written header field or a     *)
(* written cell is 0x00 (the bytes are examined for fanouts up to          *)
(* MaxByteBits, the cells for every fanout).                               *)
(***************************************************************************)
StoredKeyCleared ==
    /\ \A x \in CellsOf(builder.index) :
           /\ x.c.c_type \in {Type_Empty, Type_TablePtr} =>
                  /\ x.c.string_key = {}
                  /\ \A r \in 9 .. (CellSize - 1) : CellByte(x.c, r) = 0
           /\ x.c.c_type = Type_Empty => x.c.index = 0
    /\ (frame.pc = "idle" /\ builder.bits <= MaxByteBits) =>
           \A t \in DOMAIN builder.index.tables :
               LET table == builder.index.tables[t]
               IN /\ \A s \in 0 .. (2 ^ builder.bits - 1) :
                         get_type(cell_mut(table, s)) = "Empty" =>
                             cell_mut(table, s) = ZeroCell
                  /\ \A r \in (0 .. (TableSize(builder.bits) - 1)) \ WrittenBytes(table) :
                         TableByte(table, r) = 0

\* a STRING_PTR cell that held a key other than 0 has just been made a
\* TABLE_PTR cell
ClearedCellSeen ==
    /\ frame.pc = "split"
    /\ frame.str_key = KHigh
    /\ current_cell(Machine).c_type = Type_TablePtr
    /\ current_cell(Machine).string_key = {}

\* the cell that the Empty branch writes for the call that is running
PlacedCell ==
    [c_type |-> Type_StringPtr, index |-> builder.strings.seen[frame.value],
     string_key |-> frame.key]

\* the STRING_PTR cells of a builder, each with its table and slot
StringSlots(b) == {x \in CellsOf(b.index) : x.c.c_type = Type_StringPtr}

\* the state part of C16
WalkBounded ==
    /\ (frame.pc \in {"loop", "split"} /\ frame.remaining_bits = 0) =>
           /\ frame.pc = "loop"
           /\ frame.value \in DOMAIN builder.strings.seen
           /\ current_cell(Machine) = PlacedCell
    /\ (frame.pc \in {"loop", "split"} /\ frame.remaining_bits # 0) =>
           LET shift == KeyWidth - frame.remaining_bits
           IN /\ shift >= 0 /\ shift <= KeyWidth - 1
              /\ shift % builder.bits = 0
              /\ shift \div builder.bits <= MaxLevels(builder.bits) - 1
              /\ frame.running_key = Shr(frame.key, shift)
    /\ (frame.pc = "idle" /\ calls # <<>>) =>
           LET key == calls[Len(calls)][1]
               before == StringSlots(BeforeLastCall)
               after == StringSlots(builder)
           IN /\ key \notin EarlierKeys =>
                     /\ {x \in before : x.c.string_key = key} = {}
                     /\ Cardinality({x \in after : x.c.string_key = key}) = 1
                     /\ Cardinality(after) = Cardinality(before) + 1
              /\ {x.c.string_key : x \in StringSlots(builder)} = Inserted
              /\ Cardinality(StringSlots(builder)) = Cardinality(Inserted)

\* a running insert has a next statement: the table it stands at can be
\* overlaid, the cell it dispatches on has a known type, a pointer it is to
\* follow leads to a table, and no panic or assertion of the loop is met
CanStep ==
    /\ frame.pc = "split" => frame.new_table_index \in DOMAIN builder.index.tables
    /\ (frame.pc = "loop" /\ frame.remaining_bits # 0) =>
           /\ frame.table_index \in DOMAIN builder.index.tables
           /\ frame.remaining_bits <= KeyWidth
           /\ get_type(current_cell(Machine)) \in {"Empty", "StringPtr", "TablePtr"}
           /\ get_type(current_cell(Machine)) = "TablePtr" =>
                  table_index(current_cell(Machine)) \in DOMAIN builder.index.tables

\* the statements a running insert has left at most: a descent takes at
\* least one bit off remaining_bits, and at one level a split is two
\* statements, followed by the descent into the table it appended
StepsLeft ==
    IF frame.pc = "idle" THEN 0
    ELSE IF frame.pc = "split" THEN 4 * frame.remaining_bits + 2
    ELSE IF frame.remaining_bits = 0 THEN 1
    ELSE IF get_type(current_cell(Machine)) = "TablePtr"
    THEN 4 * frame.remaining_bits + 1
    ELSE 4 * frame.remaining_bits + 3

(***************************************************************************)
(* C16.  Insert always terminates with placement: for every bits in 2..16, *)
(* those that do not divide 64 included, a call of insert returns (a       *)
(* running insert always has a next statement, and every statement takes   *)
(* its count of statements left, at most 4 * 64 + 3, strictly down); it    *)
(* descends at most ceil(64 / bits) - 1 times, so it visits at most        *)
(* ceil(64 / bits) levels; for a key that is not present it writes exactly *)
(* one new STRING_PTR cell whose stored_key is the key, and the STRING_PTR *)
(* cells become one more (a split moves the cell of the old key, it adds   *)
(* none); the loop is left through remaining_bits == 0 only after the      *)
(* placement; and the shift 64 - remaining_bits of a split is at most 63.  *)
(***************************************************************************)
InsertTerminatesPlaced ==
    /\ [](WalkBounded /\ CanStep)
    /\ [][frame.pc # "idle" =>
              /\ StepsLeft' < StepsLeft
              /\ StepsLeft' >= 0
              /\ StepsLeft <= 4 * KeyWidth + 3]_vars

\* with a fanout that does not divide 64, the key 1 << 63 has been placed
\* at the last level, in the table that holds the one bit left of the key
LastLevelPlaced ==
    /\ frame.pc = "loop" /\ frame.remaining_bits = 0
    /\ builder.bits = 3 /\ frame.key = KHigh
    /\ TableBlocks(builder) = MaxLevels(3)
    /\ current_cell(Machine) = PlacedCell
    /\ frame.running_key = {0}

\* the keys of the model in one fixed order
KeyOrder == <<K0, K42, K84, KHigh, KMax>>

\* the pairs of cs (distinct keys) in the order of KeyOrder, from its i-th key
RECURSIVE SortedFrom(_, _)
SortedFrom(cs, i) ==
    IF i > Len(KeyOrder) THEN <<>>
    ELSE LET at == {j \in 1 .. Len(cs) : cs[j][1] = KeyOrder[i]}
         IN (IF at = {} THEN <<>> ELSE <<cs[CHOOSE j \in at : TRUE]>>)
                \o SortedFrom(cs, i + 1)

\* two orders that depend on the set of pairs alone: by key, up and down
Ascending(cs) == SortedFrom(cs, 1)

Descending(cs) == [i \in 1 .. Len(cs) |-> Ascending(cs)[Len(cs) + 1 - i]]

\* the prefixes <<d, the low d * bits bits>>, d >= 1, that at least two of
\* the keys share: the paths of slots that the trie has to tell apart below
PrefixesShared(keys, bits) ==
    {x \in {<<d, {i \in k : i < d * bits}>> :
                d \in 1 .. (MaxLevels(bits) - 1), k \in keys} :
        Cardinality({k \in keys : {i \in k : i < x[1] * bits} = x[2]}) >= 2}

(***************************************************************************)
(* C17.  Insertion-order independence: for pairs with distinct keys and a  *)
(* fixed bits, every order of the inserts builds a buffer with the same    *)
(* retrievable pairs (the pairs inserted) and the same number of table     *)
(* blocks, the root table and one table for each key prefix that at least  *)
(* two of the keys share; every order is compared with the two orders by   *)
(* key of the same pairs.  The offsets of tables and strings may differ.   *)
(***************************************************************************)
OrderIndependence ==
    bytes # NoBytes =>
        LET up == build(Replay(builder.bits, Ascending(calls)))
            down == build(Replay(builder.bits, Descending(calls)))
            pairs == Retrievable(bytes)
            blocks == Cardinality(DOMAIN bytes.index.tables)
        IN /\ pairs = Retrievable(up)
           /\ pairs = Retrievable(down)
           /\ calls # <<>> => pairs = {<<calls[i][1], calls[i][2]>> : i \in 1 .. Len(calls)}
           /\ blocks = Cardinality(DOMAIN up.index.tables)
           /\ blocks = Cardinality(DOMAIN down.index.tables)
           /\ blocks = (IF calls = <<>> THEN 0
                        ELSE 1 + Cardinality(PrefixesShared(Inserted, builder.bits)))

\* three pairs were inserted in an order that puts the tables and the
\* strings at other offsets than the order by key does
OrderCompared ==
    /\ bytes # NoBytes /\ Len(calls) = 3
    /\ calls # Ascending(calls) /\ calls # Descending(calls)
    /\ Cardinality(DOMAIN bytes.index.tables) >= 3
    /\ bytes.index.tables # build(Replay(builder.bits, Ascending(calls))).index.tables
    /\ bytes.pool # build(Replay(builder.bits, Ascending(calls))).pool
    /\ Cardinality(Retrievable(bytes)) = 3

====
